---- MODULE Spec2Model ----
(***************************************************************************)
(* The cell-state engine of src/src/main.ts: the cache store, the viewport *)
(* sweep, the player, the collect / place / combine handlers, the          *)
(* localStorage save and load, the win check and the new-game reset.       *)
(*                                                                         *)
(* Geographic coordinates are integers in units of half a tile, so that a  *)
(* tile centre (tile + 0.5) * TILE_DEGREES is a whole number of units.     *)
(* JavaScript values that cross the storage boundary keep their type: a    *)
(* value is a record [t, n] with t the typeof-like tag.                    *)
(***************************************************************************)
EXTENDS Integers, Sequences, FiniteSets, TLC

VARIABLES
    player,        \* [tileI, tileJ, heldValue]                 main.ts:329
    cacheStore,    \* key -> [pointValue, rendered]             main.ts:543
    PLAYER_START,  \* the world anchor, <<lat, lng>>            main.ts:85
    marker,        \* playerMarker.getLatLng(), <<lat, lng>>    main.ts:405
    center,        \* the map's centre, <<lat, lng>>            main.ts:386
    storage,       \* localStorage[STATE_KEY]                   main.ts:786
    winTimers,     \* pending setTimeout callbacks of the win check
    gps,           \* [watching, oneShot]: the watch subscription, the startup lookup
    phase          \* "boot" before the module's last lines ran, then "run"

vars == <<player, cacheStore, PLAYER_START, marker, center, storage,
          winTimers, gps, phase>>

-----------------------------------------------------------------------------
(* Bounds of the model *)

\* the player's tile indices stay within 0 .. MaxTile
MaxTile == 1
\* half the height and width of the map's viewport, in units
ViewHalf == 1
\* pending win timers
MaxTimers == 1
\* the map's centre stays within -MaxUnit .. MaxUnit, in units
MaxUnit == 9
\* the world anchor stays within -MaxAnchor .. MaxAnchor, in units
MaxAnchor == 1

-----------------------------------------------------------------------------
(* Configuration: main.ts:36-99 *)

\* one tile is 1e-4 degrees; the model's unit is half a tile
TILE_DEGREES == 2
\* CONFIG.spawn.probability 0.3, in hundredths
CACHE_SPAWN_PROBABILITY == 30
initialValueMultiplier == 2
RENDER_PADDING == 1
INTERACT_RANGE == 3
UNRENDER_FAR == TRUE
\* the value checkWinCondition compares with
VICTORY_VALUE == 256

-----------------------------------------------------------------------------
(* JavaScript values *)

Null == [t |-> "null", n |-> 0]
Undefined == [t |-> "undefined", n |-> 0]
Num(n) == [t |-> "number", n |-> n]
\* a string that is no number
Str == [t |-> "string", n |-> 0]

IsNumber(v) == v.t = "number"

\* v <= 0 as JavaScript evaluates it: null converts to 0, a string that is
\* no number and undefined convert to NaN, and NaN <= 0 is false
JsLeqZero(v) ==
    CASE v.t = "number" -> v.n <= 0
      [] v.t = "null" -> TRUE
      [] OTHER -> FALSE

\* a + b for the operands the combine handler adds (a === b, neither null)
JsAdd(a, b) ==
    IF IsNumber(a) /\ IsNumber(b) THEN Num(a.n + b.n) ELSE Str

Abs(x) == IF x < 0 THEN -x ELSE x
Max(a, b) == IF a >= b THEN a ELSE b

\* Math.floor(x / TILE_DEGREES)
TileOf(x) == x \div TILE_DEGREES

-----------------------------------------------------------------------------
(* The deterministic generator, luck(key) of ./_luck.ts, in hundredths.    *)
(* A fixed table over the tiles the model visits and a fixed formula       *)
(* elsewhere: a pure function of the key, in 0 .. 99.                      *)

luckTable(i, j, tag) ==
    IF tag = "initialValue"
    THEN CASE <<i, j>> = <<0, 0>> -> 90
           [] <<i, j>> = <<0, 1>> -> 50
           [] <<i, j>> = <<3, 3>> -> 25
           [] <<i, j>> = <<4, 3>> -> 10
           [] OTHER -> ((11 * i + 3 * j) % 100)
    ELSE CASE <<i, j>> = <<0, 0>> -> 10
           [] <<i, j>> = <<0, 1>> -> 20
           [] <<i, j>> = <<3, 3>> -> 15
           [] <<i, j>> = <<4, 3>> -> 29
           [] OTHER -> 30 + ((7 * i + 13 * j) % 70)

\* luck([i, j].toString()) and luck([i, j, "initialValue"].toString())
luck(i, j, tag) == luckTable(i, j, tag)

-----------------------------------------------------------------------------
(* The cache store *)

cellKey(i, j) == <<i, j>>

EmptyStore == [k \in {} |-> [pointValue |-> Num(0), rendered |-> FALSE]]

\* renderCacheEntry: the rectangle is put on the map; the value is not touched
renderCacheEntry(entry) == [entry EXCEPT !.rendered = TRUE]

\* mutant: Math.round in place of Math.floor
initialPointValue_round(i, j) ==
    (luck(i, j, "initialValue") * initialValueMultiplier + 50) \div 100

\* Math.floor(luck(...) * CONFIG.spawn.initialValueMultiplier)
initialPointValue(i, j) ==
    (luck(i, j, "initialValue") * initialValueMultiplier) \div 100

\* mutant: an entry that is rendered again gets its generated value again
ensureCacheRendered_reroll(store, i, j) ==
    LET key == cellKey(i, j) IN
    IF key \in DOMAIN store
    THEN IF store[key].rendered THEN store
         ELSE [store EXCEPT ![key] =
                  [pointValue |-> Num(initialPointValue(i, j)), rendered |-> TRUE]]
    ELSE IF luck(i, j, "") < CACHE_SPAWN_PROBABILITY
         THEN store @@ (key :> [pointValue |-> Num(initialPointValue(i, j)),
                                rendered |-> TRUE])
         ELSE store

\* mutant: the comparison with the spawn probability is the wrong way round
ensureCacheRendered_inverted(store, i, j) ==
    LET key == cellKey(i, j) IN
    IF key \in DOMAIN store
    THEN [store EXCEPT ![key] = renderCacheEntry(store[key])]
    ELSE IF luck(i, j, "") > CACHE_SPAWN_PROBABILITY
         THEN store @@ (key :> renderCacheEntry(
                  [pointValue |-> Num(initialPointValue(i, j)), rendered |-> FALSE]))
         ELSE store

\* mutant: the generated value depends on how many caches exist already
ensureCacheRendered_counted(store, i, j) ==
    LET key == cellKey(i, j) IN
    IF key \in DOMAIN store
    THEN [store EXCEPT ![key] = renderCacheEntry(store[key])]
    ELSE IF luck(i, j, "") < CACHE_SPAWN_PROBABILITY
         THEN store @@ (key :> renderCacheEntry(
                  [pointValue |-> Num(initialPointValue(i, j)
                                        + (Cardinality(DOMAIN store) % 2)),
                   rendered |-> FALSE]))
         ELSE store

\* mutant: no test for an existing entry; a tile that spawns is set again
ensureCacheRendered_regen(store, i, j) ==
    LET key == cellKey(i, j)
        entry == [pointValue |-> Num(initialPointValue(i, j)), rendered |-> TRUE]
    IN IF luck(i, j, "") < CACHE_SPAWN_PROBABILITY
       THEN [k \in DOMAIN store \cup {key} |-> IF k = key THEN entry ELSE store[k]]
       ELSE store

ensureCacheRendered(store, i, j) ==
    LET key == cellKey(i, j) IN
    IF key \in DOMAIN store
    THEN [store EXCEPT ![key] = renderCacheEntry(store[key])]
    ELSE IF luck(i, j, "") < CACHE_SPAWN_PROBABILITY
         THEN store @@ (key :> renderCacheEntry(
                  [pointValue |-> Num(initialPointValue(i, j)), rendered |-> FALSE]))
         ELSE store

\* mutant: a cache that leaves the view is dropped from the store
unrenderFarCaches_delete(store, visibleKeys) ==
    [key \in {k \in DOMAIN store : k \in visibleKeys} |-> store[key]]

\* mutant: a cache that leaves the view stays rendered
unrenderFarCaches_never(store, visibleKeys) == store

unrenderFarCaches(store, visibleKeys) ==
    IF ~UNRENDER_FAR THEN store
    ELSE [key \in DOMAIN store |->
            IF key \notin visibleKeys /\ store[key].rendered
            THEN [store[key] EXCEPT !.rendered = FALSE]
            ELSE store[key]]

\* map.getBounds() turned into tile indices, padded: <<minI, maxI, minJ, maxJ>>
viewBounds(anchor, c) ==
    <<TileOf((c[1] - ViewHalf) - anchor[1]) - RENDER_PADDING,
      TileOf((c[1] + ViewHalf) - anchor[1]) + RENDER_PADDING,
      TileOf((c[2] - ViewHalf) - anchor[2]) - RENDER_PADDING,
      TileOf((c[2] + ViewHalf) - anchor[2]) + RENDER_PADDING>>

viewKeys(anchor, c) ==
    LET b == viewBounds(anchor, c) IN
    {cellKey(i, j) : i \in b[1] .. b[2], j \in b[3] .. b[4]}

RECURSIVE ensureAll(_, _)
ensureAll(store, keys) ==
    IF keys = {} THEN store
    ELSE LET key == CHOOSE k \in keys : TRUE IN
         ensureAll(ensureCacheRendered(store, key[1], key[2]), keys \ {key})

updateCachesInView(store, anchor, c) ==
    LET visible == viewKeys(anchor, c) IN
    unrenderFarCaches(ensureAll(store, visible), visible)

\* mutant: the boundary distance is out of range
canInteract_strict(key, p) ==
    Max(Abs(key[1] - p.tileI), Abs(key[2] - p.tileJ)) < INTERACT_RANGE

canInteract(key, p) ==
    LET di == Abs(key[1] - p.tileI)
        dj == Abs(key[2] - p.tileJ)
    IN Max(di, dj) <= INTERACT_RANGE

-----------------------------------------------------------------------------
(* Persistence: localStorage[STATE_KEY] holds nothing, text that is no      *)
(* JSON, or a JSON object. ts: Date.now() is written and never read back.  *)

MkBlob(kind, ti, tj, held, isArray, caches) ==
    [kind |-> kind, playerTileI |-> ti, playerTileJ |-> tj, heldValue |-> held,
     cachesIsArray |-> isArray, caches |-> caches]

NoBlob == MkBlob("absent", Undefined, Undefined, Undefined, FALSE, <<>>)
Garbage == MkBlob("garbage", Undefined, Undefined, Undefined, FALSE, <<>>)
\* localStorage cannot be used: getItem, setItem and removeItem throw
Unavailable == MkBlob("unavailable", Undefined, Undefined, Undefined, FALSE, <<>>)

\* one element of the caches array; isObject is FALSE for a null element
CacheRecord(i, j, v) == [isObject |-> TRUE, i |-> i, j |-> j, pointValue |-> v]
NullRecord == [isObject |-> FALSE, i |-> Undefined, j |-> Undefined,
               pointValue |-> Undefined]

KeyLess(a, b) == a[1] < b[1] \/ (a[1] = b[1] /\ a[2] < b[2])

\* the keys of a store as a sequence (the Map's iteration order is taken to
\* be the order of the keys: no reader of the blob depends on it)
RECURSIVE keySeq(_)
keySeq(keys) ==
    IF keys = {} THEN <<>>
    ELSE LET first == CHOOSE k \in keys : \A o \in keys : o = k \/ KeyLess(k, o)
         IN <<first>> \o keySeq(keys \ {first})

\* mutant: caches that hold nothing are left out of the payload
saveState_dropEmpty(p, store) ==
    LET ks == keySeq({k \in DOMAIN store : store[k].pointValue # Num(0)}) IN
    MkBlob("json", Num(p.tileI), Num(p.tileJ), p.heldValue, TRUE,
           [n \in 1 .. Len(ks) |->
               CacheRecord(Num(ks[n][1]), Num(ks[n][2]), store[ks[n]].pointValue)])

\* the payload saveState writes
saveState(p, store) ==
    LET ks == keySeq(DOMAIN store) IN
    MkBlob("json", Num(p.tileI), Num(p.tileJ), p.heldValue, TRUE,
           [n \in 1 .. Len(ks) |->
               CacheRecord(Num(ks[n][1]), Num(ks[n][2]), store[ks[n]].pointValue)])

\* the loop over parsed.caches: stops where c.i throws (c is null); the
\* records of the blobs in use have numbers for i and j
RECURSIVE loadCaches(_, _, _)
loadCaches(store, caches, n) ==
    IF n > Len(caches) THEN [store |-> store, threw |-> FALSE]
    ELSE IF ~caches[n].isObject THEN [store |-> store, threw |-> TRUE]
    ELSE LET c == caches[n]
             key == cellKey(c.i.n, c.j.n)
             entry == [pointValue |-> c.pointValue, rendered |-> FALSE]
         IN loadCaches(
               [k \in DOMAIN store \cup {key} |-> IF k = key THEN entry ELSE store[k]],
               caches, n + 1)

\* loadState: [player, cacheStore, ok], ok the value it returns
loadState(p, store, raw) ==
    IF raw.kind # "json"
    THEN [player |-> p, cacheStore |-> store, ok |-> FALSE]
    ELSE LET p1 == IF IsNumber(raw.playerTileI)
                   THEN [p EXCEPT !.tileI = raw.playerTileI.n] ELSE p
             p2 == IF IsNumber(raw.playerTileJ)
                   THEN [p1 EXCEPT !.tileJ = raw.playerTileJ.n] ELSE p1
             p3 == IF raw.heldValue # Undefined
                   THEN [p2 EXCEPT !.heldValue = raw.heldValue] ELSE p2
             lc == IF raw.cachesIsArray
                   THEN loadCaches(store, raw.caches, 1)
                   ELSE [store |-> store, threw |-> FALSE]
         IN [player |-> p3, cacheStore |-> lc.store, ok |-> ~lc.threw]

-----------------------------------------------------------------------------
(* The handlers, as functions of the program's memory                      *)
(*   w = [player, cacheStore, PLAYER_START, marker, center, storage,       *)
(*        winTimers]                                                       *)

HALF_TILE == TILE_DEGREES \div 2

World == [player |-> player, cacheStore |-> cacheStore,
          PLAYER_START |-> PLAYER_START, marker |-> marker, center |-> center,
          storage |-> storage, winTimers |-> winTimers]

sweep(w) ==
    [w EXCEPT !.cacheStore = updateCachesInView(w.cacheStore, w.PLAYER_START, w.center)]

\* map.panTo(latlng, {animate: false}): the "moveend" listener of main.ts:947
\* runs the sweep when the centre moved
panTo(w, latlng) ==
    IF latlng = w.center THEN w ELSE sweep([w EXCEPT !.center = latlng])

tileCenter(anchor, p) ==
    <<anchor[1] + p.tileI * TILE_DEGREES + HALF_TILE,
      anchor[2] + p.tileJ * TILE_DEGREES + HALF_TILE>>

updatePlayerPosition(w) ==
    LET latlng == tileCenter(w.PLAYER_START, w.player) IN
    sweep(panTo([w EXCEPT !.marker = latlng], latlng))

\* localStorage.setItem / removeItem inside try ... catch: a write that throws
\* is dropped
writeStorage(w, blob) ==
    IF w.storage.kind = "unavailable" THEN w ELSE [w EXCEPT !.storage = blob]

save(w) == writeStorage(w, saveState(w.player, w.cacheStore))

\* mutant: the win check fires at half the victory value
checkWinCondition_half(w) ==
    IF w.player.heldValue = Num(VICTORY_VALUE \div 2)
    THEN [w EXCEPT !.winTimers = @ + 1]
    ELSE w

checkWinCondition(w) ==
    IF w.player.heldValue = Num(VICTORY_VALUE)
    THEN [w EXCEPT !.winTimers = @ + 1]
    ELSE w

setHeld(w, value) ==
    checkWinCondition(save(updatePlayerPosition([w EXCEPT !.player.heldValue = value])))

\* mutant: the tile indices are clamped at 0
moveBy_clamped(w, di, dj) ==
    save(sweep(updatePlayerPosition(
        [w EXCEPT !.player.tileI = Max(0, @ + di), !.player.tileJ = Max(0, @ + dj)])))

moveBy(w, di, dj) ==
    save(sweep(updatePlayerPosition(
        [w EXCEPT !.player.tileI = @ + di, !.player.tileJ = @ + dj])))

\* mutant: Math.round in place of Math.floor
placePlayerAtLatLng_round(w, lat, lng) ==
    LET w1 == [w EXCEPT
                  !.player.tileI = (lat - w.PLAYER_START[1] + HALF_TILE) \div TILE_DEGREES,
                  !.player.tileJ = (lng - w.PLAYER_START[2] + HALF_TILE) \div TILE_DEGREES,
                  !.marker = <<lat, lng>>]
    IN save(sweep(panTo(w1, <<lat, lng>>)))

placePlayerAtLatLng(w, lat, lng) ==
    LET w1 == [w EXCEPT !.player.tileI = TileOf(lat - w.PLAYER_START[1]),
                        !.player.tileJ = TileOf(lng - w.PLAYER_START[2]),
                        !.marker = <<lat, lng>>]
    IN save(sweep(panTo(w1, <<lat, lng>>)))

\* mutant: the listener does not test the range again
collectGuard_norange(w, key) ==
    /\ ~JsLeqZero(w.cacheStore[key].pointValue)
    /\ w.player.heldValue = Null

\* mutant: the listener does not test what the player holds
collectGuard_holding(w, key) ==
    /\ canInteract(key, w.player)
    /\ ~JsLeqZero(w.cacheStore[key].pointValue)

\* the guard of the Collect button's click listener
collectGuard(w, key) ==
    /\ canInteract(key, w.player)
    /\ ~JsLeqZero(w.cacheStore[key].pointValue)
    /\ w.player.heldValue = Null

\* the popup's buttons: !collectButton.disabled and !combineButton.disabled as
\* renderCacheEntry sets them and updateCacheVisual refreshes them
collectEnabled(w, key) ==
    ~(\/ ~canInteract(key, w.player)
      \/ JsLeqZero(w.cacheStore[key].pointValue)
      \/ w.player.heldValue # Null)

\* mutant: the button does not look at the cache's value
combineEnabled_anyHeld(w, key) ==
    canInteract(key, w.player) /\ w.player.heldValue # Null

combineEnabled(w, key) ==
    /\ canInteract(key, w.player)
    /\ w.player.heldValue # Null
    /\ \/ w.cacheStore[key].pointValue = Num(0)
       \/ w.player.heldValue = w.cacheStore[key].pointValue

\* mutant: saveState has no try ... catch; its exception ends the listener
\* inside setHeld, before the cache is emptied
collectClick_saveThrows(w, key) ==
    IF ~collectGuard(w, key) THEN w
    ELSE IF w.storage.kind = "unavailable"
    THEN updatePlayerPosition([w EXCEPT !.player.heldValue = w.cacheStore[key].pointValue])
    ELSE LET w1 == setHeld(w, w.cacheStore[key].pointValue)
         IN [w1 EXCEPT !.cacheStore[key].pointValue = Num(0)]

\* mutant: the cache keeps its value after being collected
collectClick_keep(w, key) ==
    IF ~collectGuard(w, key) THEN w
    ELSE setHeld(w, w.cacheStore[key].pointValue)

collectClick(w, key) ==
    IF ~collectGuard(w, key) THEN w
    ELSE LET w1 == setHeld(w, w.cacheStore[key].pointValue)
         IN [w1 EXCEPT !.cacheStore[key].pointValue = Num(0)]

\* mutant: combining leaves the token in the player's hand
combineClick_keepHeld(w, key) ==
    IF ~canInteract(key, w.player) \/ w.player.heldValue = Null THEN w
    ELSE IF w.cacheStore[key].pointValue = Num(0)
    THEN setHeld([w EXCEPT !.cacheStore[key].pointValue = w.player.heldValue], Null)
    ELSE IF w.player.heldValue # w.cacheStore[key].pointValue THEN w
    ELSE LET newVal == JsAdd(w.player.heldValue, w.cacheStore[key].pointValue)
         IN save([w EXCEPT !.cacheStore[key].pointValue = newVal])

\* mutant: the held value is put on the cache whatever the cache holds
combineClick_overwrite(w, key) ==
    IF ~canInteract(key, w.player) \/ w.player.heldValue = Null THEN w
    ELSE setHeld([w EXCEPT !.cacheStore[key].pointValue = w.player.heldValue], Null)

\* mutant: values that differ are combined too
combineClick_unequal(w, key) ==
    IF ~canInteract(key, w.player) \/ w.player.heldValue = Null THEN w
    ELSE IF w.cacheStore[key].pointValue = Num(0)
    THEN setHeld([w EXCEPT !.cacheStore[key].pointValue = w.player.heldValue], Null)
    ELSE LET newVal == JsAdd(w.player.heldValue, w.cacheStore[key].pointValue)
         IN save(setHeld([w EXCEPT !.cacheStore[key].pointValue = newVal], Null))

\* mutant: the combined cache gets three times its value
combineClick_triple(w, key) ==
    IF ~canInteract(key, w.player) \/ w.player.heldValue = Null THEN w
    ELSE IF w.cacheStore[key].pointValue = Num(0)
    THEN setHeld([w EXCEPT !.cacheStore[key].pointValue = w.player.heldValue], Null)
    ELSE IF w.player.heldValue # w.cacheStore[key].pointValue THEN w
    ELSE LET newVal == Num(3 * w.cacheStore[key].pointValue.n)
         IN save(setHeld([w EXCEPT !.cacheStore[key].pointValue = newVal], Null))

combineClick(w, key) ==
    IF ~canInteract(key, w.player) \/ w.player.heldValue = Null THEN w
    ELSE IF w.cacheStore[key].pointValue = Num(0)
    THEN setHeld([w EXCEPT !.cacheStore[key].pointValue = w.player.heldValue], Null)
    ELSE IF w.player.heldValue # w.cacheStore[key].pointValue THEN w
    ELSE LET newVal == JsAdd(w.player.heldValue, w.cacheStore[key].pointValue)
         IN save(setHeld([w EXCEPT !.cacheStore[key].pointValue = newVal], Null))

\* mutant: the store is not cleared
startNewGame_keepStore(w, ok) ==
    IF ~ok THEN w
    ELSE LET w1 == [writeStorage(w, NoBlob) EXCEPT
                     !.PLAYER_START = <<w.marker[1] - HALF_TILE, w.marker[2] - HALF_TILE>>,
                     !.player = [tileI |-> 0, tileJ |-> 0, heldValue |-> Null]]
         IN sweep(updatePlayerPosition(w1))

startNewGame(w, ok) ==
    IF ~ok THEN w
    ELSE LET w1 == [writeStorage(w, NoBlob) EXCEPT
                     !.cacheStore = EmptyStore,
                     !.PLAYER_START = <<w.marker[1] - HALF_TILE, w.marker[2] - HALF_TILE>>,
                     !.player = [tileI |-> 0, tileJ |-> 0, heldValue |-> Null]]
         IN sweep(updatePlayerPosition(w1))

\* the callback checkWinCondition schedules: confirm, then startNewGame
winTimeout(w, restart, ok) ==
    LET w1 == [w EXCEPT !.winTimers = @ - 1] IN
    IF restart THEN startNewGame(w1, ok) ELSE w1

-----------------------------------------------------------------------------
(* What localStorage may hold when the page is opened                      *)

\* written by an earlier session: held 4 next to caches of 4 and 1
BlobMid ==
    saveState([tileI |-> 0, tileJ |-> 0, heldValue |-> Num(4)],
              (<<0, 0>> :> [pointValue |-> Num(4), rendered |-> FALSE])
              @@ (<<0, 1>> :> [pointValue |-> Num(1), rendered |-> FALSE]))

\* written by an earlier session: held 128 next to a cache of 128
BlobHigh ==
    saveState([tileI |-> 0, tileJ |-> 0, heldValue |-> Num(128)],
              (<<0, 0>> :> [pointValue |-> Num(128), rendered |-> FALSE])
              @@ (<<0, 1>> :> [pointValue |-> Num(0), rendered |-> FALSE]))

\* not written by this version of the program: heldValue is the number 0
BlobLegacy ==
    MkBlob("json", Num(0), Num(0), Num(0), TRUE, <<CacheRecord(Num(0), Num(0), Num(1))>>)

StoredBlobs == {BlobMid, BlobHigh, BlobLegacy}

\* the caches array ends with a null element: c.i throws inside the loop
BlobNullCache ==
    MkBlob("json", Num(1), Num(0), Num(2), TRUE,
           <<CacheRecord(Num(0), Num(0), Num(2)), NullRecord>>)

\* fields of the wrong type: playerTileI, heldValue and a pointValue are strings
BlobWrongTypes ==
    MkBlob("json", Str, Num(1), Str, TRUE, <<CacheRecord(Num(0), Num(0), Str)>>)

\* fields missing: no playerTileJ, no heldValue, caches is no array
BlobPartial ==
    MkBlob("json", Num(1), Undefined, Undefined, FALSE, <<>>)

\* stored text that the program did not write, or that was cut or edited
DamagedBlobs == {Garbage, BlobNullCache, BlobWrongTypes, BlobPartial}

\* positions the geolocation API reports, <<lat, lng>> in units
GpsFixes == {<<2, 1>>}

\* map.panBy offsets, in units
PanOffsets == {<<6, 6>>, <<-6, -6>>}

\* the steps of the W/A/S/D buttons and keys
MoveDeltas == {<<1, 0>>, <<-1, 0>>, <<0, 1>>, <<0, -1>>}

InRange(x, m) == -m <= x /\ x <= m

-----------------------------------------------------------------------------
(* The state machine *)

DefaultPlayer == [tileI |-> 0, tileJ |-> 0, heldValue |-> Null]

\* the module has been evaluated up to main.ts:942: the UI is built, the
\* position watch and the startup lookup are requested
Constructed ==
    /\ player = DefaultPlayer
    /\ cacheStore = EmptyStore
    /\ PLAYER_START = <<0, 0>>
    /\ marker = <<0, 0>>
    /\ center = <<0, 0>>
    /\ winTimers = 0
    /\ gps = [watching |-> TRUE, oneShot |-> TRUE]
    /\ phase = "boot"

\* a first visit: nothing is stored
Init == Constructed /\ storage = NoBlob

\* a later visit: an earlier session left a blob
InitStored == Constructed /\ storage \in StoredBlobs

Become(w) ==
    /\ player' = w.player
    /\ cacheStore' = w.cacheStore
    /\ PLAYER_START' = w.PLAYER_START
    /\ marker' = w.marker
    /\ center' = w.center
    /\ storage' = w.storage
    /\ winTimers' = w.winTimers

Bounded(w) ==
    /\ w.player.tileI \in 0 .. MaxTile /\ w.player.tileJ \in 0 .. MaxTile
    /\ InRange(w.center[1], MaxUnit) /\ InRange(w.center[2], MaxUnit)
    /\ InRange(w.PLAYER_START[1], MaxAnchor) /\ InRange(w.PLAYER_START[2], MaxAnchor)
    /\ w.winTimers <= MaxTimers

\* mutant: the stored state is not loaded before the first sweep
startup_noLoad(w) == sweep(w)

\* main.ts:943-947: loadState(), the first sweep, the "moveend" listener
startup(w) ==
    LET ld == loadState(w.player, w.cacheStore, w.storage) IN
    sweep([w EXCEPT !.player = ld.player, !.cacheStore = ld.cacheStore])

Startup ==
    /\ phase = "boot"
    /\ LET w == startup(World) IN Bounded(w) /\ Become(w)
    /\ phase' = "run"
    /\ UNCHANGED gps

\* the W/A/S/D buttons and keys
MoveByD(d) ==
    /\ phase = "run"
    /\ LET w == moveBy(World, d[1], d[2]) IN Bounded(w) /\ Become(w)
    /\ UNCHANGED <<gps, phase>>

MoveBy == \E d \in MoveDeltas : MoveByD(d)

\* the map is panned (wheel, drag, arrow keys); "moveend" runs the sweep
PanBy(d) ==
    /\ phase = "run"
    /\ LET w == panTo(World, <<center[1] + d[1], center[2] + d[2]>>) IN
          Bounded(w) /\ Become(w)
    /\ UNCHANGED <<gps, phase>>

Pan == \E d \in PanOffsets : PanBy(d)

\* the popup of a rendered cache: a click on its Collect button
CollectOn(key) ==
    /\ phase = "run"
    /\ key \in DOMAIN cacheStore
    /\ cacheStore[key].rendered
    /\ LET w == collectClick(World, key) IN Bounded(w) /\ Become(w)
    /\ UNCHANGED <<gps, phase>>

Collect == \E key \in DOMAIN cacheStore : CollectOn(key)

\* a click on its Combine button (place on an empty cache, or combine)
CombineOn(key) ==
    /\ phase = "run"
    /\ key \in DOMAIN cacheStore
    /\ cacheStore[key].rendered
    /\ LET w == combineClick(World, key) IN Bounded(w) /\ Become(w)
    /\ UNCHANGED <<gps, phase>>

Combine == \E key \in DOMAIN cacheStore : CombineOn(key)

\* the watchPosition callback
GeoWatchAt(fix) ==
    /\ phase = "run"
    /\ gps.watching
    /\ LET w == placePlayerAtLatLng(World, fix[1], fix[2]) IN Bounded(w) /\ Become(w)
    /\ UNCHANGED <<gps, phase>>

GeoWatch == \E fix \in GpsFixes : GeoWatchAt(fix)

\* the getCurrentPosition callback of main.ts:412-428
GeoInitialAt(fix) ==
    /\ phase = "run"
    /\ gps.oneShot
    /\ LET w == placePlayerAtLatLng(World, fix[1], fix[2]) IN Bounded(w) /\ Become(w)
    /\ gps' = [gps EXCEPT !.oneShot = FALSE]
    /\ UNCHANGED phase

GeoInitial == \E fix \in GpsFixes : GeoInitialAt(fix)

\* the "Use GPS" checkbox: startGeolocationControls / _stopGeolocationControls
GpsToggle ==
    /\ phase = "run"
    /\ gps' = [gps EXCEPT !.watching = ~@]
    /\ UNCHANGED <<player, cacheStore, PLAYER_START, marker, center, storage,
                   winTimers, phase>>

\* the New Game button, with the answer to its confirm dialog
NewGameAnswer(ok) ==
    /\ phase = "run"
    /\ LET w == startNewGame(World, ok) IN Bounded(w) /\ Become(w)
    /\ UNCHANGED <<gps, phase>>

NewGame == \E ok \in BOOLEAN : NewGameAnswer(ok)

\* the timer of checkWinCondition fires: the win dialog, then startNewGame
WinTimerAnswer(restart, ok) ==
    /\ phase = "run"
    /\ winTimers > 0
    /\ LET w == winTimeout(World, restart, ok) IN Bounded(w) /\ Become(w)
    /\ UNCHANGED <<gps, phase>>

WinTimer == \E restart \in BOOLEAN, ok \in BOOLEAN : WinTimerAnswer(restart, ok)

\* the tab is closed ("beforeunload" saves) and the page is opened again
Reload ==
    /\ phase = "run"
    /\ storage' = save(World).storage
    /\ player' = DefaultPlayer
    /\ cacheStore' = EmptyStore
    /\ PLAYER_START' = <<0, 0>>
    /\ marker' = <<0, 0>>
    /\ center' = <<0, 0>>
    /\ winTimers' = 0
    /\ gps' = [watching |-> TRUE, oneShot |-> TRUE]
    /\ phase' = "boot"

\* a first visit and everything the player and the browser can do
Next ==
    \/ Startup
    \/ MoveBy
    \/ Pan
    \/ Collect
    \/ Combine
    \/ GeoWatch
    \/ GeoInitial
    \/ GpsToggle
    \/ NewGame
    \/ Reload

Spec == Init /\ [][Next]_vars

\* a later visit, played with the buttons up to the win dialog
NextStored ==
    \/ Startup
    \/ MoveBy
    \/ Pan
    \/ Collect
    \/ Combine
    \/ NewGame
    \/ WinTimer

SpecStored == InitStored /\ [][NextStored]_vars

\* a visit that finds damaged text in storage
InitDamaged == Constructed /\ storage \in DamagedBlobs

NextDamaged ==
    \/ Startup
    \/ MoveBy
    \/ Pan
    \/ Collect
    \/ Combine
    \/ NewGame

SpecDamaged == InitDamaged /\ [][NextDamaged]_vars

\* a visit in a browser whose localStorage cannot be used
InitNoStorage == Constructed /\ storage = Unavailable

NextNoStorage ==
    \/ Startup
    \/ MoveBy
    \/ Pan
    \/ Collect
    \/ Combine
    \/ NewGame
    \/ Reload

SpecNoStorage == InitNoStorage /\ [][NextNoStorage]_vars

\* player.setHeld is part of the Player interface (main.ts:319-327): a caller
\* that invokes it directly, whatever the player holds
HoldValues == {Num(1), Num(2)}

HoldCall(value) ==
    /\ phase = "run"
    /\ LET w == setHeld(World, value) IN Bounded(w) /\ Become(w)
    /\ UNCHANGED <<gps, phase>>

Hold == \E value \in HoldValues : HoldCall(value)

NextHold ==
    \/ Startup
    \/ MoveBy
    \/ Collect
    \/ Combine
    \/ Hold

SpecHold == Init /\ [][NextHold]_vars

-----------------------------------------------------------------------------
(* Properties *)

Keys == DOMAIN cacheStore
ValueOf(key) == cacheStore[key].pointValue

\* the tile coordinates the blob in storage lists
BlobKeys(blob) ==
    {cellKey(blob.caches[n].i.n, blob.caches[n].j.n) : n \in 1 .. Len(blob.caches)}

\* a step that only moves the player or the view
ViewStep == MoveBy \/ Pan \/ GeoWatch \/ GeoInitial

\* C1: no re-roll. A step that moves the player or pans the map (each runs the
\* viewport sweep, which unrenders and re-renders entries) keeps every entry
\* and its value, and leaves an entry inside the new view rendered; an entry
\* that is kept changes its value only in a Collect or a Combine-button click
\* (a new game replaces the store).
C1_NoReroll ==
    [][ LET b == viewBounds(PLAYER_START', center')
            InView(key) == /\ b[1] <= key[1] /\ key[1] <= b[2]
                           /\ b[3] <= key[2] /\ key[2] <= b[4]
        IN
        /\ (\E key \in Keys :
               \/ key \notin DOMAIN cacheStore'
               \/ cacheStore'[key].pointValue # ValueOf(key)
               \/ (InView(key) /\ ~cacheStore'[key].rendered))
             => ~ViewStep
        /\ (\E key \in Keys \cap DOMAIN cacheStore' :
                cacheStore'[key].pointValue # ValueOf(key))
             => (Collect \/ Combine \/ NewGame)
      ]_vars

\* the player collected the token of (0,0), the map was panned to (4,3), which
\* unrendered (0,0), and back: (0,0) is rendered again and still empty
C1_Witness ==
    /\ phase = "run"
    /\ PLAYER_START = <<0, 0>>
    /\ {<<0, 0>>, <<4, 3>>} \subseteq Keys
    /\ cacheStore[<<0, 0>>].rendered
    /\ ~cacheStore[<<4, 3>>].rendered
    /\ ValueOf(<<0, 0>>) = Num(0)
    /\ player.heldValue = Num(1)

\* C2: an entry of the store is deleted only by a new game (the page being
\* closed ends the store, and the next visit loads every entry back): in
\* every other step the set of keys grows, so no key is created twice.
C2_EntriesKept ==
    [][ /\ ~(Keys \subseteq DOMAIN cacheStore') => (NewGameAnswer(TRUE) \/ Reload)
        /\ Reload => BlobKeys(storage') = Keys
        /\ Startup => BlobKeys(storage) \subseteq DOMAIN cacheStore'
      ]_vars

\* an entry that left the view is still in the store, after a reload too
C2_Witness ==
    /\ phase = "run"
    /\ storage # NoBlob
    /\ \E key \in Keys : ~cacheStore[key].rendered /\ key \in BlobKeys(storage)

C4_HoldRejected ==
    [][ \A value \in HoldValues :
           HoldCall(value)
              => IF player.heldValue # Null
                 THEN player'.heldValue = player.heldValue
                 ELSE /\ player'.heldValue = value
                      /\ storage' = saveState(player', cacheStore')
                      /\ winTimers' = winTimers +
                            (IF value = Num(VICTORY_VALUE) THEN 1 ELSE 0)
      ]_vars

\* the range test as the claims state it: Chebyshev distance at most 3
WithinRange(key) ==
    /\ Abs(key[1] - player.tileI) <= 3
    /\ Abs(key[2] - player.tileJ) <= 3

IsPositive(v) == IsNumber(v) /\ v.n > 0

OthersKept(key) ==
    \A k \in Keys \ {key} :
        k \in DOMAIN cacheStore' /\ cacheStore'[k].pointValue = ValueOf(k)

\* C5: a Collect click on a cache in range that holds a value, by a player who
\* holds nothing, ends with the value held and the cache empty; the player's
\* tile and every other cache's value are unchanged.
C5_Collect ==
    [][ \A key \in Keys :
           (/\ WithinRange(key) /\ IsPositive(ValueOf(key)) /\ player.heldValue = Null
            /\ CollectOn(key))
              => /\ player'.heldValue = ValueOf(key)
                 /\ cacheStore'[key].pointValue = Num(0)
                 /\ player'.tileI = player.tileI /\ player'.tileJ = player.tileJ
                 /\ OthersKept(key)
      ]_vars

\* the token of (0,0) is in the player's hand, the one of (0,1) in its cache
C5_Witness ==
    /\ phase = "run"
    /\ {<<0, 0>>, <<0, 1>>} \subseteq Keys
    /\ player.heldValue = Num(1)
    /\ ValueOf(<<0, 0>>) = Num(0)
    /\ ValueOf(<<0, 1>>) = Num(1)

\* C6: a click on the Combine button of an empty cache in range, by a player
\* who holds a value, ends with the value in the cache and nothing held; on a
\* cache that holds another value than the player the click changes neither.
C6_Place ==
    [][ \A key \in Keys :
           /\ (/\ WithinRange(key) /\ ValueOf(key) = Num(0) /\ player.heldValue # Null
               /\ CombineOn(key))
                 => /\ cacheStore'[key].pointValue = player.heldValue
                    /\ player'.heldValue = Null
                    /\ OthersKept(key)
           /\ (/\ ValueOf(key) # Num(0) /\ player.heldValue # ValueOf(key)
               /\ CombineOn(key))
                 => /\ cacheStore'[key].pointValue = ValueOf(key)
                    /\ player'.heldValue = player.heldValue
      ]_vars

\* the held 4 lies in (3,3), which is generated empty, and nothing is held
C6_Witness ==
    /\ phase = "run"
    /\ <<3, 3>> \in Keys
    /\ ValueOf(<<3, 3>>) = Num(4)
    /\ player.heldValue = Null

\* C7: a click on the Combine button of a cache that is not empty combines
\* only when the cache is in range and holds a positive value equal to the
\* held one; the cache then holds twice that value and nothing is held. In
\* every other case the cache and the held value stay as they are.
C7_Combine ==
    [][ \A key \in Keys :
           (ValueOf(key) # Num(0) /\ CombineOn(key))
              => IF /\ WithinRange(key) /\ IsPositive(ValueOf(key))
                    /\ player.heldValue = ValueOf(key)
                 THEN /\ cacheStore'[key].pointValue = Num(2 * ValueOf(key).n)
                      /\ player'.heldValue = Null
                      /\ OthersKept(key)
                 ELSE /\ cacheStore'[key].pointValue = ValueOf(key)
                      /\ player'.heldValue = player.heldValue
      ]_vars

\* held 4 on the cache of 4 gave a cache of 8
C7_Witness ==
    /\ phase = "run"
    /\ <<0, 0>> \in Keys
    /\ ValueOf(<<0, 0>>) = Num(8)
    /\ player.heldValue = Null

\* C8: a click whose cache is out of range, or whose precondition does not
\* hold when the click is handled, changes nothing at all.
C8_ClickRejected ==
    [][ \A key \in Keys :
           /\ (/\ ~(/\ WithinRange(key) /\ IsPositive(ValueOf(key))
                    /\ player.heldValue = Null)
               /\ CollectOn(key))
                 => UNCHANGED vars
           /\ (/\ ~(/\ WithinRange(key) /\ player.heldValue # Null
                    /\ (ValueOf(key) = Num(0) \/ ValueOf(key) = player.heldValue))
               /\ CombineOn(key))
                 => UNCHANGED vars
      ]_vars

\* the popup of (4,3) is on the map with a token in it, the player stands on
\* (0,0), four tiles away, and holds nothing
C8_Witness ==
    /\ phase = "run"
    /\ <<4, 3>> \in Keys
    /\ cacheStore[<<4, 3>>].rendered
    /\ ValueOf(<<4, 3>>) = Num(1)
    /\ player.tileI = 0 /\ player.tileJ = 0
    /\ player.heldValue = Null

\* C9: canInteract is the test "Chebyshev distance at most 3": from (0,0),
\* (3,3) is in range and (4,3) is not.
C9_RangeGate ==
    /\ \A key \in Keys : canInteract(key, player) <=> WithinRange(key)
    /\ (player.tileI = 0 /\ player.tileJ = 0 /\ {<<3, 3>>, <<4, 3>>} \subseteq Keys)
          => canInteract(<<3, 3>>, player) /\ ~canInteract(<<4, 3>>, player)

\* the player stands on (0,0) and both caches are on the map
C9_Witness ==
    /\ phase = "run"
    /\ player.tileI = 0 /\ player.tileJ = 0
    /\ {<<3, 3>>, <<4, 3>>} \subseteq Keys
    /\ cacheStore[<<3, 3>>].rendered /\ cacheStore[<<4, 3>>].rendered

\* C10: a click that sets the held value schedules the win dialog exactly
\* when the new held value is 256; a click that clears it schedules nothing.
C10_WinSignal ==
    [][ (winTimers' # winTimers +
            (IF player'.heldValue # player.heldValue /\ player'.heldValue = Num(256)
             THEN 1 ELSE 0))
          => ~(Collect \/ Combine)
      ]_vars

\* the cache of 256 was collected and the dialog is scheduled
C10_Witness ==
    /\ phase = "run"
    /\ player.heldValue = Num(256)
    /\ winTimers = 1

\* C11: a Combine click by a player who holds 128 on a cache in range that
\* holds 128 schedules the win dialog exactly once, in that step.
C11_CraftWins ==
    [][ \A key \in Keys :
           (/\ WithinRange(key) /\ player.heldValue = Num(128)
            /\ ValueOf(key) = Num(128) /\ CombineOn(key))
              => winTimers' = winTimers + 1
      ]_vars

\* a step of one of the operations that change the player or a cache value
MutatingStep == MoveBy \/ GeoWatch \/ GeoInitial \/ Collect \/ Combine

\* C12: when a move, a geolocation update, a Collect or a Combine-button click
\* has changed the player or the store, the blob in storage holds the player's
\* tile, the held value and every entry's coordinates and value as they are
\* in memory.
C12_BlobCurrent ==
    [][ (MutatingStep /\ (player' # player \/ cacheStore' # cacheStore))
           => storage' = saveState(player', cacheStore')
      ]_vars

\* the value the blob lists for a tile
BlobValue(blob, key) ==
    LET n == CHOOSE m \in 1 .. Len(blob.caches) :
                 cellKey(blob.caches[m].i.n, blob.caches[m].j.n) = key
    IN blob.caches[n].pointValue

\* C13: the blob a Collect or Combine-button click writes shows the clicked
\* cache and the held value either both as they were before the click or
\* both as they are after it, never one changed and the other not.
C13_TokenActionAtomic ==
    [][ \A key \in Keys :
           ((CollectOn(key) \/ CombineOn(key)) /\ storage' # storage)
              => /\ key \in BlobKeys(storage')
                 /\ \/ /\ storage'.heldValue = player'.heldValue
                       /\ BlobValue(storage', key) = cacheStore'[key].pointValue
                    \/ /\ storage'.heldValue = player.heldValue
                       /\ BlobValue(storage', key) = ValueOf(key)
      ]_vars

\* C14: round trip. The blob the closing page saves, loaded by the fresh page
\* (default player, empty store), gives back the player's tile, the held value
\* and every entry's coordinates and value; every loaded entry is unrendered
\* whatever its flag was.
C14_RoundTrip ==
    [][ Reload =>
          LET ld == loadState(player', cacheStore', storage') IN
          /\ ld.ok
          /\ ld.player = player
          /\ ld.cacheStore =
                [key \in Keys |-> [pointValue |-> ValueOf(key), rendered |-> FALSE]]
      ]_vars

\* the page was closed while the player, moved to tile (1,0), held the token
\* of (0,0): the saved blob waits for the fresh page to load it
C14_Witness ==
    /\ phase = "boot"
    /\ storage.kind = "json"
    /\ storage.playerTileI = Num(1)
    /\ storage.heldValue = Num(1)
    /\ {<<0, 0>>, <<0, 1>>} \subseteq BlobKeys(storage)
    /\ BlobValue(storage, <<0, 0>>) = Num(0)
    /\ BlobValue(storage, <<0, 1>>) = Num(1)

\* C15: when loadState returns false (nothing stored, or text it cannot use),
\* it has applied no part of the blob: the page starts from the default
\* player and from the store the first sweep makes out of the empty store.
C15_FailedLoadAppliesNothing ==
    [][ (Startup /\ ~loadState(player, cacheStore, storage).ok)
           => /\ player' = DefaultPlayer
              /\ cacheStore' = sweep([World EXCEPT !.cacheStore = EmptyStore]).cacheStore
      ]_vars

\* C16: loading a blob that parses takes each well-typed field and leaves the
\* default for each field that is missing or of the wrong type: after startup
\* the tile indices are the stored numbers or 0, the held value is the stored
\* number or null, and every cache value is a number.
C16_FieldByFieldFallback ==
    [][ (Startup /\ storage.kind = "json")
           => /\ player'.tileI =
                    (IF IsNumber(storage.playerTileI) THEN storage.playerTileI.n ELSE 0)
              /\ player'.tileJ =
                    (IF IsNumber(storage.playerTileJ) THEN storage.playerTileJ.n ELSE 0)
              /\ player'.heldValue =
                    (IF IsNumber(storage.heldValue) THEN storage.heldValue ELSE Null)
              /\ \A key \in DOMAIN cacheStore' : IsNumber(cacheStore'[key].pointValue)
      ]_vars

\* C17: a confirmed new game leaves nothing in storage, a store that holds
\* exactly what the sweep generates from the empty store (each entry in view,
\* rendered, with its generated value), the player on tile (0,0) holding
\* nothing, and an anchor for which the marker's position before the reset
\* lies in tile (0,0).
C17_NewGameReset ==
    [][ NewGameAnswer(TRUE)
          => /\ storage' = NoBlob
             /\ cacheStore' = updateCachesInView(EmptyStore, PLAYER_START', center')
             /\ \A key \in DOMAIN cacheStore' :
                   /\ key \in viewKeys(PLAYER_START', center')
                   /\ cacheStore'[key] =
                         [pointValue |-> Num(initialPointValue(key[1], key[2])),
                          rendered |-> TRUE]
             /\ player' = DefaultPlayer
             /\ TileOf(marker[1] - PLAYER_START'[1]) = 0
             /\ TileOf(marker[2] - PLAYER_START'[2]) = 0
      ]_vars

\* a new game was started where the geolocation fix had put the marker: the
\* anchor moved there, nothing is stored, the player holds nothing
C17_Witness ==
    /\ phase = "run"
    /\ storage = NoBlob
    /\ marker = <<2, 1>>
    /\ PLAYER_START = <<1, 0>>
    /\ player = DefaultPlayer
    /\ cacheStore # EmptyStore

\* C18: after a sweep (every handler that moves the view ends with one), an
\* entry of the store is rendered exactly when its tile lies in the padded
\* rectangle of the view, and every tile of that rectangle is decided: it has
\* an entry or the generator's presence value is not below the spawn
\* probability.
C18_SweepResult ==
    phase = "run"
      => LET V == viewKeys(PLAYER_START, center) IN
         /\ \A key \in Keys : cacheStore[key].rendered <=> key \in V
         /\ \A key \in V :
               key \in Keys \/ luck(key[1], key[2], "") >= CACHE_SPAWN_PROBABILITY

\* the map was panned from the start to tiles 1 .. 4: (3,3) is rendered, the
\* caches around the start are kept and unrendered
C18_Witness ==
    /\ phase = "run"
    /\ PLAYER_START = <<0, 0>>
    /\ viewBounds(PLAYER_START, center) = <<1, 4, 1, 4>>
    /\ {<<0, 0>>, <<0, 1>>, <<3, 3>>} \subseteq Keys
    /\ ~cacheStore[<<0, 0>>].rendered
    /\ ~cacheStore[<<0, 1>>].rendered
    /\ cacheStore[<<3, 3>>].rendered

\* C19: the sweep is idempotent. With the view and the anchor as they are,
\* a sweep of the store (at startup: of the store loadState builds) followed
\* by a second sweep gives what the first gave; and once the page runs, where
\* every state follows a sweep, one more sweep creates no entry, changes no
\* value and flips no rendered flag.
C19_SweepIdempotent ==
    LET s0 == IF phase = "boot"
              THEN loadState(player, cacheStore, storage).cacheStore
              ELSE cacheStore
        s1 == updateCachesInView(s0, PLAYER_START, center)
    IN /\ updateCachesInView(s1, PLAYER_START, center) = s1
       /\ phase = "run" => s1 = cacheStore

\* the geolocation fix moved the view back over the emptied cache (0,0), which
\* is rendered; (3,3), seen earlier, is kept unrendered
C19_Witness ==
    /\ phase = "run"
    /\ center = <<2, 1>>
    /\ {<<0, 0>>, <<3, 3>>} \subseteq Keys
    /\ cacheStore[<<0, 0>>].rendered
    /\ ValueOf(<<0, 0>>) = Num(0)
    /\ ~cacheStore[<<3, 3>>].rendered

\* the tiles on which ensureCacheRendered is tried: -ProbeTiles .. ProbeTiles
ProbeTiles == 5

\* C20: ensureCacheRendered on a tile that has no entry adds an entry exactly
\* when the generator's presence value is strictly below the spawn
\* probability; the entry is rendered and holds the floor of the value
\* generator times the multiplier; otherwise the store is unchanged. With
\* probability 0.3 and multiplier 2, presence 0.1 spawns and value generator
\* 0.9 gives the value 1.
C20_SpawnRule ==
    /\ \A i \in -ProbeTiles .. ProbeTiles, j \in -ProbeTiles .. ProbeTiles :
          cellKey(i, j) \notin Keys =>
             LET after == ensureCacheRendered(cacheStore, i, j) IN
             IF luck(i, j, "") < 30
             THEN /\ DOMAIN after = Keys \cup {cellKey(i, j)}
                  /\ after[cellKey(i, j)] =
                        [pointValue |-> Num((luck(i, j, "initialValue") * 2) \div 100),
                         rendered |-> TRUE]
                  /\ \A key \in Keys : after[key] = cacheStore[key]
             ELSE after = cacheStore
    /\ (luck(0, 0, "") = 10 /\ luck(0, 0, "initialValue") = 90)
          => ensureCacheRendered(EmptyStore, 0, 0) =
                (cellKey(0, 0) :> [pointValue |-> Num(1), rendered |-> TRUE])

\* the first sweep of a first visit created (0,0) with the value 1, decided
\* against (1,1), which is in view, and has not reached (3,3)
C20_Witness ==
    /\ phase = "run"
    /\ storage = NoBlob
    /\ PLAYER_START = <<0, 0>>
    /\ center = <<0, 0>>
    /\ <<0, 0>> \in Keys
    /\ cacheStore[<<0, 0>>] = [pointValue |-> Num(1), rendered |-> TRUE]
    /\ <<1, 1>> \in viewKeys(PLAYER_START, center)
    /\ <<1, 1>> \notin Keys
    /\ <<3, 3>> \notin Keys

\* C21: determinism. What ensureCacheRendered decides for a tile without an
\* entry, and the value it gives, are the same on the store as it is and on
\* the empty store of an independent run, whatever was generated or changed
\* before; and every entry a step creates (a load aside) holds that value.
C21_Deterministic ==
    [][ /\ \A i \in -ProbeTiles .. ProbeTiles, j \in -ProbeTiles .. ProbeTiles :
              cellKey(i, j) \notin Keys =>
                 LET here == ensureCacheRendered(cacheStore, i, j)
                     alone == ensureCacheRendered(EmptyStore, i, j)
                 IN /\ cellKey(i, j) \in DOMAIN here <=> cellKey(i, j) \in DOMAIN alone
                    /\ cellKey(i, j) \in DOMAIN here
                          => here[cellKey(i, j)] = alone[cellKey(i, j)]
        /\ ~Startup =>
              \A key \in DOMAIN cacheStore' \ Keys :
                 LET alone == ensureCacheRendered(EmptyStore, key[1], key[2]) IN
                 key \in DOMAIN alone /\ cacheStore'[key] = alone[key]
      ]_vars

\* a second game, anchored where the geolocation fix put the player: its
\* sweep generated (0,0) and (0,1) with the values the first game gave them,
\* and the player, who collected (0,0), then saw (3,3) generated
C21_Witness ==
    /\ phase = "run"
    /\ PLAYER_START = <<1, 0>>
    /\ {<<0, 0>>, <<0, 1>>, <<3, 3>>} \subseteq Keys
    /\ player.heldValue = Num(1)
    /\ ValueOf(<<0, 0>>) = Num(0)
    /\ ValueOf(<<0, 1>>) = Num(1)
    /\ cacheStore[<<3, 3>>] = [pointValue |-> Num(0), rendered |-> TRUE]

\* C22: loadState runs once, as the first thing a page does: before it
\* nothing but the startup step can happen and the player and the store are
\* untouched, after it the page never loads again; and the sweep that follows
\* it leaves every stored tile with its stored value.
C22_LoadFirst ==
    [][ /\ phase = "boot"
            => /\ Startup
               /\ player = DefaultPlayer
               /\ cacheStore = EmptyStore
        /\ Startup
            => /\ phase = "boot" /\ phase' = "run"
               /\ \A key \in BlobKeys(storage) :
                     /\ key \in DOMAIN cacheStore'
                     /\ cacheStore'[key].pointValue = BlobValue(storage, key)
        /\ phase = "run" => (phase' = "run" /\ ~Startup)
      ]_vars

\* the page has started from the stored game: the cache (0,0), which the
\* generator would give the value 1, holds the stored 4
C22_Witness ==
    /\ phase = "run"
    /\ storage = BlobMid
    /\ player.heldValue = Num(4)
    /\ cacheStore[<<0, 0>>] = [pointValue |-> Num(4), rendered |-> TRUE]
    /\ initialPointValue(0, 0) = 1

\* the tokens a store holds on a set of tiles
RECURSIVE SumValues(_, _)
SumValues(store, keys) ==
    IF keys = {} THEN 0
    ELSE LET key == CHOOSE k \in keys : TRUE IN
         store[key].pointValue.n + SumValues(store, keys \ {key})

\* the held token, counted as 0 when nothing is held
HeldCount(p) == IF p.heldValue = Null THEN 0 ELSE p.heldValue.n

\* C23: token conservation. A Collect or Combine-button click, and every other
\* step except a new game, a page load and a page close, keeps the sum of the
\* held token and the values of the entries that existed before the step;
\* entries the step's sweep creates come on top.
C23_TokensConserved ==
    [][ ~(NewGameAnswer(TRUE) \/ Startup \/ Reload)
          => /\ Keys \subseteq DOMAIN cacheStore'
             /\ HeldCount(player') + SumValues(cacheStore', Keys)
                   = HeldCount(player) + SumValues(cacheStore, Keys)
      ]_vars

\* two tokens of 1 became one token of 2 in the cache (0,1); nothing is held
C23_Witness ==
    /\ phase = "run"
    /\ {<<0, 0>>, <<0, 1>>} \subseteq Keys
    /\ ValueOf(<<0, 0>>) = Num(0)
    /\ ValueOf(<<0, 1>>) = Num(2)
    /\ player.heldValue = Null

\* C24: the anchor survives a reload. The page that opens after the closing
\* page saved its state has the anchor that was in effect at the save, and
\* loading the blob leaves it so.
C24_AnchorRestored ==
    [][ /\ Reload => PLAYER_START' = PLAYER_START
        /\ Startup => PLAYER_START' = PLAYER_START
      ]_vars

\* C25: while the GPS toggle is off, no position the geolocation API delivers
\* (by the watch or by the startup lookup) moves the player.
C25_GpsOffNoMove ==
    [][ (~gps.watching /\ (GeoWatch \/ GeoInitial))
           => /\ player'.tileI = player.tileI
              /\ player'.tileJ = player.tileJ
              /\ marker' = marker
      ]_vars

\* C26: when the timer of the win check fires (the win dialog, and the new
\* game it may start), the player still holds the victory value.
C26_WinDeliveredOnVictory ==
    [][ WinTimer => player.heldValue = Num(VICTORY_VALUE) ]_vars

\* C27: the buttons match the listeners. For every rendered cache, the
\* Collect button is enabled exactly when a Collect click would change the
\* state, and the Combine button exactly when its click would (it then places
\* or combines).
C27_ButtonsMatchHandlers ==
    phase = "run" =>
       \A key \in Keys :
          cacheStore[key].rendered =>
             /\ collectEnabled(World, key) <=> collectClick(World, key) # World
             /\ combineEnabled(World, key) <=> combineClick(World, key) # World

\* held 4 next to the cache of 4 and the cache of 1: Combine is enabled on the
\* first only, Collect on neither
C27_Witness ==
    /\ phase = "run"
    /\ player.heldValue = Num(4)
    /\ {<<0, 0>>, <<0, 1>>} \subseteq Keys
    /\ cacheStore[<<0, 0>>].rendered /\ cacheStore[<<0, 1>>].rendered
    /\ ValueOf(<<0, 0>>) = Num(4) /\ ValueOf(<<0, 1>>) = Num(1)
    /\ combineEnabled(World, <<0, 0>>)
    /\ ~combineEnabled(World, <<0, 1>>)
    /\ ~collectEnabled(World, <<0, 0>>)

\* C28: for every cache and player at most one of Collect (in range, value
\* above 0, nothing held), Place (in range, value 0, something held) and
\* Combine (in range, value above 0 and equal to the held one) has its
\* precondition; a Collect click acts only under the first, a Combine-button
\* click only under one of the other two, and never both clicks act.
C28_OneActionPerClick ==
    phase = "run" =>
       \A key \in Keys :
          LET v == ValueOf(key)
              h == player.heldValue
              preCollect == WithinRange(key) /\ IsPositive(v) /\ h = Null
              prePlace == WithinRange(key) /\ v = Num(0) /\ h # Null
              preCombine == WithinRange(key) /\ IsPositive(v) /\ v = h
              collects == collectClick(World, key) # World
              combines == combineClick(World, key) # World
          IN /\ ~(preCollect /\ prePlace)
             /\ ~(preCollect /\ preCombine)
             /\ ~(prePlace /\ preCombine)
             /\ collects => preCollect
             /\ combines => (prePlace \/ preCombine)
             /\ ~(collects /\ combines)

\* held 128 next to the cache of 128 (Combine only) and the empty cache
\* (Place only)
C28_Witness ==
    /\ phase = "run"
    /\ player.heldValue = Num(128)
    /\ {<<0, 0>>, <<0, 1>>} \subseteq Keys
    /\ cacheStore[<<0, 0>>].rendered /\ cacheStore[<<0, 1>>].rendered
    /\ ValueOf(<<0, 0>>) = Num(128)
    /\ ValueOf(<<0, 1>>) = Num(0)
    /\ combineClick(World, <<0, 0>>) # World
    /\ collectClick(World, <<0, 0>>) = World

\* C29: a tile whose presence value is not below the spawn probability never
\* gets an entry: from a first visit on, every entry's tile has a presence
\* value below 0.3, and ensureCacheRendered on a tile that does not spawn,
\* once or twice, leaves the store as it is.
C29_NoSpawnStaysEmpty ==
    /\ \A key \in Keys : luck(key[1], key[2], "") < 30
    /\ \A i \in -ProbeTiles .. ProbeTiles, j \in -ProbeTiles .. ProbeTiles :
          luck(i, j, "") >= 30 =>
             /\ cellKey(i, j) \notin Keys
             /\ ensureCacheRendered(cacheStore, i, j) = cacheStore
             /\ ensureCacheRendered(ensureCacheRendered(cacheStore, i, j), i, j)
                   = cacheStore

\* the player walked to tile (1,1), which is in view for the third sweep at
\* least and has no entry; the four tiles that spawn all have theirs
C29_Witness ==
    /\ phase = "run"
    /\ player.tileI = 1 /\ player.tileJ = 1
    /\ luck(1, 1, "") >= 30
    /\ <<1, 1>> \in viewKeys(PLAYER_START, center)
    /\ <<1, 1>> \notin Keys
    /\ Keys = {<<0, 0>>, <<0, 1>>, <<3, 3>>, <<4, 3>>}

\* C30: a delivered geolocation update is handled as one step: after it the
\* player's tile is the floor of the delivered position's offset from the
\* anchor over the tile size, the marker and the map are at the delivered
\* position, the store is swept for that view, and the blob in storage
\* records the player and the store as they are.
C30_GeoUpdateAtomic ==
    [][ \A fix \in GpsFixes :
           (GeoWatchAt(fix) \/ GeoInitialAt(fix))
              => /\ player'.tileI = TileOf(fix[1] - PLAYER_START[1])
                 /\ player'.tileJ = TileOf(fix[2] - PLAYER_START[2])
                 /\ player'.heldValue = player.heldValue
                 /\ PLAYER_START' = PLAYER_START
                 /\ marker' = fix /\ center' = fix
                 /\ cacheStore' = updateCachesInView(cacheStore, PLAYER_START, fix)
                 /\ storage' = saveState(player', cacheStore')
                 /\ storage'.playerTileI = Num(player'.tileI)
                 /\ storage'.playerTileJ = Num(player'.tileJ)
      ]_vars

\* the startup lookup delivered (2,1): the player is on tile (1,0), the marker
\* and the map are at (2,1), and the blob says tile (1,0)
C30_Witness ==
    /\ phase = "run"
    /\ ~gps.oneShot
    /\ PLAYER_START = <<0, 0>>
    /\ marker = <<2, 1>>
    /\ center = <<2, 1>>
    /\ player.tileI = 1 /\ player.tileJ = 0
    /\ storage = saveState(player, cacheStore)
    /\ storage.playerTileI = Num(1)
    /\ storage.playerTileJ = Num(0)

\* the memory a handler leaves: everything but the blob in storage
Memory(w) == <<w.player, w.cacheStore, w.PLAYER_START, w.marker, w.center, w.winTimers>>

\* the program's memory next to a storage that works and holds nothing
Working == [World EXCEPT !.storage = NoBlob]

\* C31: with a storage whose reads and writes fail, loadState reports failure
\* and applies nothing, no save and no removal changes anything, and every
\* handler leaves the memory it would leave with a working storage: tile,
\* held value, caches, marker, view and pending win dialogs.
C31_StorageUnavailable ==
    [][ storage = Unavailable =>
          /\ storage' = Unavailable
          /\ Startup =>
                /\ ~loadState(player, cacheStore, storage).ok
                /\ player' = DefaultPlayer
                /\ Memory(World)' = Memory(startup(Working))
          /\ \A d \in MoveDeltas :
                MoveByD(d) => Memory(World)' = Memory(moveBy(Working, d[1], d[2]))
          /\ \A key \in Keys :
                /\ CollectOn(key) => Memory(World)' = Memory(collectClick(Working, key))
                /\ CombineOn(key) => Memory(World)' = Memory(combineClick(Working, key))
          /\ \A ok \in BOOLEAN :
                NewGameAnswer(ok) => Memory(World)' = Memory(startNewGame(Working, ok))
      ]_vars

\* without storage the player collected the token of (0,0), walked to tile
\* (1,0) and placed nothing yet: the game goes on in memory
C31_Witness ==
    /\ phase = "run"
    /\ storage = Unavailable
    /\ player = [tileI |-> 1, tileJ |-> 0, heldValue |-> Num(1)]
    /\ {<<0, 0>>, <<0, 1>>} \subseteq Keys
    /\ ValueOf(<<0, 0>>) = Num(0)
    /\ ValueOf(<<0, 1>>) = Num(1)

\* C32: moveBy from any tile, for each of the four steps, puts the player on
\* exactly the tile plus the step (tiles below 0 and tiles never visited
\* included), keeps the held value and every cache's value, sweeps the new
\* view and saves; and a move the game makes is that result.
C32_MoveBy ==
    [][ phase = "run" =>
          \A d \in MoveDeltas :
             \A w \in {moveBy(World, d[1], d[2])} :
             /\ w.player = [player EXCEPT !.tileI = @ + d[1], !.tileJ = @ + d[2]]
             /\ w.marker = tileCenter(PLAYER_START, w.player)
             /\ w.center = w.marker
             /\ \A key \in Keys :
                   key \in DOMAIN w.cacheStore
                      /\ w.cacheStore[key].pointValue = ValueOf(key)
             /\ w.cacheStore = updateCachesInView(w.cacheStore, PLAYER_START, w.center)
             /\ w.storage = saveState(w.player, w.cacheStore)
             /\ MoveByD(d) => (player' = w.player /\ cacheStore' = w.cacheStore
                               /\ storage' = w.storage)
      ]_vars

\* holding a token of value 1, the player stepped from tile (0,0) to (0,1):
\* marker and map are on that tile's centre and the blob says (0,1)
C32_Witness ==
    /\ phase = "run"
    /\ PLAYER_START = <<0, 0>>
    /\ player = [tileI |-> 0, tileJ |-> 1, heldValue |-> Num(1)]
    /\ marker = <<1, 3>>
    /\ center = <<1, 3>>
    /\ storage = saveState(player, cacheStore)
    /\ storage.playerTileJ = Num(1)

RECURSIVE IsPowerOfTwo(_)
IsPowerOfTwo(n) == n = 1 \/ (n > 1 /\ n % 2 = 0 /\ IsPowerOfTwo(n \div 2))

\* C33: in a game begun with nothing stored (initialValueMultiplier 2), every
\* cache's value is the number 0 or a power of two, and the held value is
\* null or a power of two.
C33_PowersOfTwo ==
    /\ initialValueMultiplier = 2
    /\ \A key \in Keys :
          /\ IsNumber(ValueOf(key))
          /\ ValueOf(key).n = 0 \/ IsPowerOfTwo(ValueOf(key).n)
    /\ \/ player.heldValue = Null
       \/ IsNumber(player.heldValue) /\ IsPowerOfTwo(player.heldValue.n)

\* the two tokens of value 1 were combined on (0,1) and the resulting 2 was
\* collected: the player holds 2 and both caches are empty
C33_Witness ==
    /\ phase = "run"
    /\ player.heldValue = Num(2)
    /\ {<<0, 0>>, <<0, 1>>} \subseteq Keys
    /\ ValueOf(<<0, 0>>) = Num(0)
    /\ ValueOf(<<0, 1>>) = Num(0)

====
